---- MODULE Spec2Model ----
(***************************************************************************)
(* Model of include/util/math.hpp (namespace rack): the scalar helpers,    *)
(* Vec and Rect.  Every function is pure; a call is one action that draws  *)
(* its arguments from a bounded set and records the returned value.  The   *)
(* loop of log2i is modelled step by step, since its termination is        *)
(* claimed.                                                                *)
(*                                                                         *)
(* Numbers.  A float is represented by an integer count of 1/Scale units;  *)
(* all values are small, so every float operation of the model is exact in *)
(* binary32 (no rounding, no NaN, no infinity).  An int is a small integer *)
(* far from the 32-bit limits.                                             *)
(***************************************************************************)
EXTENDS Integers, Sequences, FiniteSets, TLC

VARIABLES op, args, res, n, i, pc

vars == <<op, args, res, n, i, pc>>

\* ---- bounds ----
MaxInt == 6
MaxN == 40
MaxF == 3
MaxCoord == 2
MaxSize == 2
Scale == 4
PLen == 1
MaxVal == 2
MaxC == 2

Ints == (0 - MaxInt)..MaxInt
Bases == 1..MaxInt
Floats == (0 - MaxF)..MaxF
Coords == 0..MaxCoord
Sizes == (0 - 1)..MaxSize
CVals == (0 - MaxC)..MaxC

\* ---- C++ integer arithmetic ----

\* a / b of C++: the quotient truncated toward zero (b > 0)
CDiv(a, b) == IF a >= 0 THEN a \div b ELSE 0 - ((0 - a) \div b)

\* a % b of C++: the remainder of the truncating division, sign of a
CRem(a, b) == a - b * CDiv(a, b)

eucmodi_noadjust(a, base) == CRem(a, base)

eucmodi(a, base) ==
    LET mod == CRem(a, base)
    IN  IF mod >= 0 THEN mod ELSE mod + base

\* ---- float helpers ----

fminf(a, b) == IF a < b THEN a ELSE b

fmaxf(a, b) == IF a > b THEN a ELSE b

\* Mutant: the upper limit is not applied.
clampf_noUpper(x, min, max) == IF x < min THEN min ELSE x

clampf(x, min, max) ==
    IF x < min THEN min
    ELSE IF x > max THEN max
    ELSE x

clamp2f_noswap(x, min, max) == clampf(x, min, max)

clamp2f(x, min, max) == clampf(x, fminf(min, max), fmaxf(min, max))

\* product of two floats held in 1/Scale units
FMul(a, b) == CDiv(a * b, Scale)

crossf(a, b, frac) == a + FMul(frac, b - a)

\* `int xi = x`: float to int conversion truncates toward zero
FloatToInt(x) == CDiv(x, Scale)

\* int to float conversion
IntToFloat(k) == k * Scale

interpfReads(x) ==
    LET xi == FloatToInt(x)
    IN  {xi, xi + 1}

interpf(p, x) ==
    LET xi == FloatToInt(x)
        xf == x - IntToFloat(xi)
    IN  crossf(p[xi], p[xi + 1], xf)

\* ---- cmultf ----
\* Storage of the caller: the two operands and a fresh output pair.
Cells == {"ar", "ai", "br", "bi", "fr", "fi"}

\* Mutant: the operands are read through references after the write to *cr.
cmultf_byref(mem, cr, ci, arL, aiL, brL, biL) ==
    LET m1 == [mem EXCEPT ![cr] = mem[arL] * mem[brL] - mem[aiL] * mem[biL]]
    IN  [m1 EXCEPT ![ci] = m1[arL] * m1[biL] + m1[aiL] * m1[brL]]

\* cr, ci are the pointers; arL..biL are the caller's objects named as the
\* value arguments, copied into the parameters when the call is made.
cmultf(mem, cr, ci, arL, aiL, brL, biL) ==
    LET ar == mem[arL]
        ai == mem[aiL]
        br == mem[brL]
        bi == mem[biL]
        m1 == [mem EXCEPT ![cr] = ar * br - ai * bi]
    IN  [m1 EXCEPT ![ci] = ar * bi + ai * br]

\* ---- Vec and Rect ----

Vec(x, y) == [x |-> x, y |-> y]

Rect(pos, size) == [pos |-> pos, size |-> size]

Vecs(S) == {Vec(x, y) : x \in S, y \in S}

Rects == {Rect(p, s) : p \in Vecs(Coords), s \in Vecs(Sizes)}

containsRect(self, r) ==
    /\ self.pos.x <= r.pos.x
    /\ r.pos.x + r.size.x <= self.pos.x + self.size.x
    /\ self.pos.y <= r.pos.y
    /\ r.pos.y + r.size.y <= self.pos.y + self.size.y

intersects_nonstrict(self, r) ==
    /\ self.pos.x + self.size.x >= r.pos.x
    /\ r.pos.x + r.size.x >= self.pos.x
    /\ self.pos.y + self.size.y >= r.pos.y
    /\ r.pos.y + r.size.y >= self.pos.y

intersects(self, r) ==
    /\ self.pos.x + self.size.x > r.pos.x
    /\ r.pos.x + r.size.x > self.pos.x
    /\ self.pos.y + self.size.y > r.pos.y
    /\ r.pos.y + r.size.y > self.pos.y

\* Mutant: the size is taken from the unclamped position.
clamp_sizeFromOldPos(self, bound) ==
    LET px == clamp2f(self.pos.x, bound.pos.x, bound.pos.x + bound.size.x)
        py == clamp2f(self.pos.y, bound.pos.y, bound.pos.y + bound.size.y)
        sx == clampf(self.pos.x + self.size.x, bound.pos.x, bound.pos.x + bound.size.x) - self.pos.x
        sy == clampf(self.pos.y + self.size.y, bound.pos.y, bound.pos.y + bound.size.y) - self.pos.y
    IN  Rect(Vec(px, py), Vec(sx, sy))

clamp(self, bound) ==
    LET px == clamp2f(self.pos.x, bound.pos.x, bound.pos.x + bound.size.x)
        py == clamp2f(self.pos.y, bound.pos.y, bound.pos.y + bound.size.y)
        sx == clampf(self.pos.x + self.size.x, bound.pos.x, bound.pos.x + bound.size.x) - px
        sy == clampf(self.pos.y + self.size.y, bound.pos.y, bound.pos.y + bound.size.y) - py
    IN  Rect(Vec(px, py), Vec(sx, sy))

\* Mutant: the upper limit of the position forgets the rectangle's own size.
nudge_noSize(self, bound) ==
    Rect(Vec(clamp2f(self.pos.x, bound.pos.x, bound.pos.x + bound.size.x),
             clamp2f(self.pos.y, bound.pos.y, bound.pos.y + bound.size.y)),
         self.size)

nudge(self, bound) ==
    Rect(Vec(clamp2f(self.pos.x, bound.pos.x, bound.pos.x + bound.size.x - self.size.x),
             clamp2f(self.pos.y, bound.pos.y, bound.pos.y + bound.size.y - self.size.y)),
         self.size)

\* Mutant: the size is the larger of the two sizes.
expand_maxSize(self, other) ==
    Rect(Vec(fminf(self.pos.x, other.pos.x), fminf(self.pos.y, other.pos.y)),
         Vec(fmaxf(self.size.x, other.size.x), fmaxf(self.size.y, other.size.y)))

expand(self, other) ==
    LET px == fminf(self.pos.x, other.pos.x)
        py == fminf(self.pos.y, other.pos.y)
        sx == fmaxf(self.pos.x + self.size.x, other.pos.x + other.size.x) - px
        sy == fmaxf(self.pos.y + self.size.y, other.pos.y + other.size.y) - py
    IN  Rect(Vec(px, py), Vec(sx, sy))

\* ---- the state machine ----
\* A state is one call: the function called (op), its arguments (args), the
\* position of the call (pc: "call" before the body has run, "loop" inside
\* the loop of log2i, "done" after the return) and the returned value (res).
\* n and i are the parameter and the local of log2i.

\* The arrays p: float elements at the indices -PLen..PLen around p[0].
Arrays == [(0 - PLen)..PLen -> {IntToFloat(v) : v \in 0..MaxVal}]

\* The indices x whose floor(x) and floor(x)+1 are elements of p.
Indices == (0 - PLen * Scale)..(PLen * Scale - 1)

\* cmultf(&out_r, &out_i, ar, ai, br, bi) with the outputs in the storage of
\* the first operand ("a"), of the second ("b") or in fresh storage ("f").
Targets == {"a", "b", "f"}

OutCells(target) ==
    IF target = "a" THEN <<"ar", "ai">>
    ELSE IF target = "b" THEN <<"br", "bi">>
    ELSE <<"fr", "fi">>

\* The caller's storage before the call; the fresh output pair holds 0.
CallerMem(ar, ai, br, bi) ==
    [c \in Cells |->
        IF c = "ar" THEN ar ELSE IF c = "ai" THEN ai
        ELSE IF c = "br" THEN br ELSE IF c = "bi" THEN bi ELSE 0]

RectOps == {"clamp", "nudge", "expand", "intersects"}

InitCall ==
    \/ op = "eucmodi" /\ args \in Ints \X Bases
    \/ op = "clamp2f" /\ args \in Floats \X Floats \X Floats
    \/ op = "interpf" /\ args \in Arrays \X Indices
    \/ op = "cmultf" /\ args \in CVals \X CVals \X CVals \X CVals \X Targets
    \/ op \in RectOps /\ args \in Rects \X Rects

Init ==
    /\ InitCall
    /\ res = 0
    /\ n = 0
    /\ i = 0
    /\ pc = "call"

Return(value) ==
    /\ res' = value
    /\ pc' = "done"
    /\ UNCHANGED <<op, args, n, i>>

Eucmodi ==
    /\ pc = "call" /\ op = "eucmodi"
    /\ Return(eucmodi(args[1], args[2]))

Clamp2f ==
    /\ pc = "call" /\ op = "clamp2f"
    /\ Return(clamp2f(args[1], args[2], args[3]))

Interpf ==
    /\ pc = "call" /\ op = "interpf"
    /\ Return([val |-> interpf(args[1], args[2]), reads |-> interpfReads(args[2])])

Cmultf ==
    /\ pc = "call" /\ op = "cmultf"
    /\ LET out == OutCells(args[5])
       IN  Return(cmultf(CallerMem(args[1], args[2], args[3], args[4]),
                         out[1], out[2], "ar", "ai", "br", "bi"))

RectClamp ==
    /\ pc = "call" /\ op = "clamp"
    /\ Return(clamp(args[1], args[2]))

RectNudge ==
    /\ pc = "call" /\ op = "nudge"
    /\ Return(nudge(args[1], args[2]))

RectExpand ==
    /\ pc = "call" /\ op = "expand"
    /\ Return(expand(args[1], args[2]))

RectIntersects ==
    /\ pc = "call" /\ op = "intersects"
    /\ Return(intersects(args[1], args[2]))

Next ==
    \/ Eucmodi
    \/ Clamp2f
    \/ Interpf
    \/ Cmultf
    \/ RectClamp
    \/ RectNudge
    \/ RectExpand
    \/ RectIntersects

Spec == Init /\ [][Next]_vars

\* ---- log2i, one loop iteration per step ----

\* n >> 1 for a non-negative int
ShiftRight1(k) == k \div 2

InitLog2 ==
    /\ op = "log2i"
    /\ args \in {<<n0>> : n0 \in 0..MaxN}
    /\ res = 0
    /\ n = 0
    /\ i = 0
    /\ pc = "call"

\* the call: the parameter n and `int i = 0;`
Log2iCall ==
    /\ pc = "call" /\ op = "log2i"
    /\ n' = args[1]
    /\ i' = 0
    /\ pc' = "loop"
    /\ UNCHANGED <<op, args, res>>

\* Mutant: do { i++; } while (n >>= 1);
Log2iStep_doWhile ==
    /\ pc = "loop"
    /\ n' = ShiftRight1(n)
    /\ i' = i + 1
    /\ IF n' # 0
         THEN UNCHANGED <<pc, res>>
         ELSE pc' = "done" /\ res' = i'
    /\ UNCHANGED <<op, args>>

\* one evaluation of `while (n >>= 1)`: the body i++ when the shifted n is
\* not zero, `return i` when it is
Log2iStep ==
    /\ pc = "loop"
    /\ n' = ShiftRight1(n)
    /\ IF n' # 0
         THEN i' = i + 1 /\ UNCHANGED <<pc, res>>
         ELSE pc' = "done" /\ res' = i /\ UNCHANGED i
    /\ UNCHANGED <<op, args>>

NextLog2 ==
    \/ Log2iCall
    \/ Log2iStep

\* A call keeps running until it returns: the function has no blocking
\* operation.
Log2Spec == InitLog2 /\ [][NextLog2]_vars /\ WF_vars(NextLog2)

\* ---- properties ----

Done(f) == pc = "done" /\ op = f

\* C1: for every int a and base > 0, eucmodi(a, base) is in 0..base-1 and
\* congruent to a modulo base; a % base has the sign of a.
C1_EucmodiRange ==
    Done("eucmodi") =>
        LET a == args[1]
            base == args[2]
        IN  /\ 0 <= res /\ res < base
            /\ (a - res) % base = 0
            /\ (a < 0 => CRem(a, base) <= 0) /\ (a >= 0 => CRem(a, base) >= 0)

\* the remainder was negative and base was added
C1_Witness ==
    Done("eucmodi") /\ CRem(args[1], args[2]) < 0 /\ res = CRem(args[1], args[2]) + args[2]

\* ---- spans of a rectangle on one axis ----

NonNeg(r) == r.size.x >= 0 /\ r.size.y >= 0

Positive(r) == r.size.x > 0 /\ r.size.y > 0

\* the closed span [lo, hi] lies inside the closed span [L, H]
SpanInside(lo, hi, L, H) == L <= lo /\ lo <= hi /\ hi <= H

\* the closed spans [a1, a2] and [b1, b2] share a point
SpansMeet(a1, a2, b1, b2) == a1 <= b2 /\ b1 <= a2

\* C2 as stated: with non-negative sizes, the span of r.clamp(bound) lies on
\* each axis inside the span of bound and inside the span of r.
C2_Original ==
    (Done("clamp") /\ NonNeg(args[1]) /\ NonNeg(args[2])) =>
        LET r == args[1]
            b == args[2]
        IN  /\ SpanInside(res.pos.x, res.pos.x + res.size.x, b.pos.x, b.pos.x + b.size.x)
            /\ SpanInside(res.pos.y, res.pos.y + res.size.y, b.pos.y, b.pos.y + b.size.y)
            /\ SpanInside(res.pos.x, res.pos.x + res.size.x, r.pos.x, r.pos.x + r.size.x)
            /\ SpanInside(res.pos.y, res.pos.y + res.size.y, r.pos.y, r.pos.y + r.size.y)

\* C2 amended: with non-negative sizes, the span of r.clamp(bound) lies on
\* each axis inside the span of bound, and inside the span of r on every axis
\* where the spans of r and of bound share a point.
C2_ClampInsideBound ==
    (Done("clamp") /\ NonNeg(args[1]) /\ NonNeg(args[2])) =>
        LET r == args[1]
            b == args[2]
        IN  /\ SpanInside(res.pos.x, res.pos.x + res.size.x, b.pos.x, b.pos.x + b.size.x)
            /\ SpanInside(res.pos.y, res.pos.y + res.size.y, b.pos.y, b.pos.y + b.size.y)
            /\ SpansMeet(r.pos.x, r.pos.x + r.size.x, b.pos.x, b.pos.x + b.size.x)
                 => SpanInside(res.pos.x, res.pos.x + res.size.x, r.pos.x, r.pos.x + r.size.x)
            /\ SpansMeet(r.pos.y, r.pos.y + r.size.y, b.pos.y, b.pos.y + b.size.y)
                 => SpanInside(res.pos.y, res.pos.y + res.size.y, r.pos.y, r.pos.y + r.size.y)

\* r pokes out of bound on both sides of the x axis and both edges are moved
C2_Witness ==
    /\ Done("clamp") /\ NonNeg(args[1]) /\ NonNeg(args[2])
    /\ args[1].pos.x < args[2].pos.x
    /\ args[1].pos.x + args[1].size.x > args[2].pos.x + args[2].size.x
    /\ res.pos.x = args[2].pos.x /\ res.size.x = args[2].size.x

\* the closed span [a1, a2] lies strictly outside the closed span [b1, b2]
SpansDisjoint(a1, a2, b1, b2) == a2 < b1 \/ b2 < a1

NonNegRects == {r \in Rects : NonNeg(r)}

\* r, with bound, is a case of C3: non-negative sizes, and on some axis the
\* span of r is disjoint from the span of bound
OutsideOnAnAxis(r, b) ==
    /\ NonNeg(r) /\ NonNeg(b)
    /\ \/ SpansDisjoint(r.pos.x, r.pos.x + r.size.x, b.pos.x, b.pos.x + b.size.x)
       \/ SpansDisjoint(r.pos.y, r.pos.y + r.size.y, b.pos.y, b.pos.y + b.size.y)

\* C3 as stated: there are r and bound with non-negative sizes, the span of
\* r disjoint from the span of bound on an axis, for which r.clamp(bound) has
\* a negative size on that axis.  Evaluated in the states where clamp has
\* returned for such a pair: one of these pairs has to have a negative size.
C3_Original ==
    (Done("clamp") /\ OutsideOnAnAxis(args[1], args[2])) =>
        \E r \in NonNegRects, b \in NonNegRects :
            \/ /\ SpansDisjoint(r.pos.x, r.pos.x + r.size.x, b.pos.x, b.pos.x + b.size.x)
               /\ clamp(r, b).size.x < 0
            \/ /\ SpansDisjoint(r.pos.y, r.pos.y + r.size.y, b.pos.y, b.pos.y + b.size.y)
               /\ clamp(r, b).size.y < 0

\* C3 amended: with non-negative sizes r.clamp(bound) never has a negative
\* size; on an axis where the span of r is disjoint from the span of bound
\* the size of the result is exactly 0.
C3_ClampSizeNotNegative ==
    (Done("clamp") /\ NonNeg(args[1]) /\ NonNeg(args[2])) =>
        LET r == args[1]
            b == args[2]
        IN  /\ res.size.x >= 0 /\ res.size.y >= 0
            /\ SpansDisjoint(r.pos.x, r.pos.x + r.size.x, b.pos.x, b.pos.x + b.size.x)
                 => res.size.x = 0
            /\ SpansDisjoint(r.pos.y, r.pos.y + r.size.y, b.pos.y, b.pos.y + b.size.y)
                 => res.size.y = 0

\* r has a positive width and lies fully left of bound
C3_Witness ==
    /\ Done("clamp") /\ NonNeg(args[1]) /\ NonNeg(args[2])
    /\ args[1].size.x > 0
    /\ args[1].pos.x + args[1].size.x < args[2].pos.x
    /\ res.size.x = 0

\* v lies between a and b, in whichever order they are
Between(v, a, b) == (a <= v /\ v <= b) \/ (b <= v /\ v <= a)

\* C4: r.nudge(bound) keeps the size of r; its position lies on each axis
\* between bound.pos and bound.pos + bound.size - r.size; when
\* 0 <= r.size <= bound.size, bound contains the result; when bound contains
\* r, the result is r.
C4_Nudge ==
    Done("nudge") =>
        LET r == args[1]
            b == args[2]
        IN  /\ res.size = r.size
            /\ Between(res.pos.x, b.pos.x, b.pos.x + b.size.x - r.size.x)
            /\ Between(res.pos.y, b.pos.y, b.pos.y + b.size.y - r.size.y)
            /\ (/\ NonNeg(r)
                /\ r.size.x <= b.size.x
                /\ r.size.y <= b.size.y) => containsRect(b, res)
            /\ containsRect(b, r) => res = r

\* r fits into bound, lies partly outside it and is moved
C4_Witness ==
    /\ Done("nudge") /\ Positive(args[1])
    /\ args[1].size.x <= args[2].size.x /\ args[1].size.y <= args[2].size.y
    /\ ~containsRect(args[2], args[1])
    /\ res.pos # args[1].pos
    /\ containsRect(args[2], res)

\* the rectangles q that may contain a.expand(b)
Boxes == {Rect(p, s) : p \in Vecs(Coords), s \in Vecs(0..(MaxCoord + MaxSize))}

\* C5: with non-negative sizes a.expand(b) contains a and b, and every
\* rectangle that contains a and b contains a.expand(b).
C5_ExpandSmallest ==
    (Done("expand") /\ NonNeg(args[1]) /\ NonNeg(args[2])) =>
        LET a == args[1]
            b == args[2]
        IN  /\ containsRect(res, a)
            /\ containsRect(res, b)
            /\ \A q \in Boxes :
                 (containsRect(q, a) /\ containsRect(q, b)) => containsRect(q, res)

\* neither rectangle contains the other
C5_Witness ==
    /\ Done("expand") /\ Positive(args[1]) /\ Positive(args[2])
    /\ ~containsRect(args[1], args[2])
    /\ ~containsRect(args[2], args[1])
    /\ res # args[1] /\ res # args[2]

\* The open intervals (a1, a2) and (b1, b2) share a point: a point of the
\* grid or a midpoint between two grid points, in half units.
OpenShare(a1, a2, b1, b2) ==
    \E t \in 0..(2 * (MaxCoord + MaxSize)) :
        2 * a1 < t /\ t < 2 * a2 /\ 2 * b1 < t /\ t < 2 * b2

OpenOverlap(a, b) ==
    /\ OpenShare(a.pos.x, a.pos.x + a.size.x, b.pos.x, b.pos.x + b.size.x)
    /\ OpenShare(a.pos.y, a.pos.y + a.size.y, b.pos.y, b.pos.y + b.size.y)

\* an edge of a lies on the opposite edge of b
TouchAtEdge(a, b) ==
    \/ a.pos.x + a.size.x = b.pos.x
    \/ b.pos.x + b.size.x = a.pos.x
    \/ a.pos.y + a.size.y = b.pos.y
    \/ b.pos.y + b.size.y = a.pos.y

\* C6 as stated: with non-negative sizes, zero included, a.intersects(b) iff
\* the open intervals share a point on both axes; touching at an edge is no
\* intersection; intersects is symmetric.
C6_Original ==
    (Done("intersects") /\ NonNeg(args[1]) /\ NonNeg(args[2])) =>
        /\ res <=> OpenOverlap(args[1], args[2])
        /\ TouchAtEdge(args[1], args[2]) => ~res
        /\ res = intersects(args[2], args[1])

\* C6 amended: with positive sizes a.intersects(b) iff the open intervals
\* share a point on both axes; with non-negative sizes, zero included,
\* touching at an edge is no intersection and intersects is symmetric.
C6_Intersects ==
    (Done("intersects") /\ NonNeg(args[1]) /\ NonNeg(args[2])) =>
        /\ (Positive(args[1]) /\ Positive(args[2])) => (res <=> OpenOverlap(args[1], args[2]))
        /\ TouchAtEdge(args[1], args[2]) => ~res
        /\ res = intersects(args[2], args[1])

\* two rectangles of positive size that touch at an edge on the x axis and
\* overlap on the y axis
C6_Witness ==
    /\ Done("intersects") /\ Positive(args[1]) /\ Positive(args[2])
    /\ args[1].pos.x + args[1].size.x = args[2].pos.x
    /\ args[1].pos.y = args[2].pos.y
    /\ res = FALSE

\* C7: clamp2f does not depend on the order of its bounds, equals clampf
\* with the ordered bounds, lies in [min(a,b), max(a,b)] and leaves an x of
\* that interval alone.
C7_Clamp2fOrder ==
    Done("clamp2f") =>
        LET x == args[1]
            a == args[2]
            b == args[3]
            lo == IF a <= b THEN a ELSE b
            hi == IF a <= b THEN b ELSE a
        IN  /\ res = clamp2f(x, b, a)
            /\ res = clampf(x, lo, hi)
            /\ lo <= res /\ res <= hi
            /\ (lo <= x /\ x <= hi) => res = x

\* the bounds are given in the wrong order and x lies outside them
C7_Witness ==
    Done("clamp2f") /\ args[2] > args[3] /\ args[1] < args[3] /\ res = args[3]

\* 2^k
RECURSIVE Pow2(_)
Pow2(k) == IF k = 0 THEN 1 ELSE 2 * Pow2(k - 1)

\* C8: for n >= 1 the loop of log2i terminates and returns the i >= 0 with
\* 2^i <= n < 2^(i+1); for n = 0 it terminates with 0.
C8_Log2i ==
    /\ [](Done("log2i") =>
            IF args[1] = 0 THEN res = 0
            ELSE res >= 0 /\ Pow2(res) <= args[1] /\ args[1] < Pow2(res + 1))
    /\ (pc = "call") ~> (pc = "done")

\* the loop body has run at least three times
C8_Witness == Done("log2i") /\ args[1] >= 8 /\ res >= 3 /\ n = 0

\* floor(x) of a float x
Floor(x) == x \div Scale

\* C9: for every index x, negative x included, interpf reads the elements
\* floor(x) and floor(x)+1 and returns crossf(p[i], p[i+1], f) with
\* i = floor(x), f = x - i, 0 <= f < 1.
C9_InterpfFloor ==
    Done("interpf") =>
        LET p == args[1]
            x == args[2]
            fl == Floor(x)
            f == x - IntToFloat(fl)
        IN  /\ 0 <= f /\ f < IntToFloat(1)
            /\ res.reads = {fl, fl + 1}
            /\ res.val = crossf(p[fl], p[fl + 1], f)

\* C10: with cr, ci pointing at the storage of the first or of the second
\* operand, cmultf leaves there (ar*br - ai*bi, ar*bi + ai*br), the pair a
\* call with fresh outputs yields.
C10_CmultfAlias ==
    Done("cmultf") =>
        LET ar == args[1]
            ai == args[2]
            br == args[3]
            bi == args[4]
            out == OutCells(args[5])
            fresh == cmultf(CallerMem(ar, ai, br, bi), "fr", "fi", "ar", "ai", "br", "bi")
        IN  /\ res[out[1]] = ar * br - ai * bi
            /\ res[out[2]] = ar * bi + ai * br
            /\ res[out[1]] = fresh["fr"]
            /\ res[out[2]] = fresh["fi"]

\* the outputs are the first operand, the write to *cr changes ar, and the
\* imaginary part depends on ar
C10_Witness ==
    /\ Done("cmultf") /\ args[5] = "a"
    /\ res["ar"] # args[1]
    /\ args[4] # 0
    /\ res["ai"] = args[1] * args[4] + args[2] * args[3]

====
